---- MODULE Spec2Model ----
(***************************************************************************)
(* Model of src/chock_a_block/start.py: the block-buy loop keep_buying,    *)
(* the websocket task quote_listener that updates the shared quote dict,   *)
(* and API.time_bounded_order (place, wait, cancel).                       *)
(*                                                                         *)
(* Spec is the run over a stream that stays up.  SpecStream adds the close *)
(* of the stream and the failure of a connection attempt, SpecSession the  *)
(* contents of the responses of web.instance, SpecPartial is the run over  *)
(* a stream with a message of one field, and SpecRepeat the run            *)
(* keep_buying(target=19) over a stream that repeats one quote.  SpecStall *)
(* is the run keep_buying(target=99) over a market that stays at the ask   *)
(* 100, with the loop woken from every sleep.                              *)
(*                                                                         *)
(* asyncio runs the two tasks on one thread, so a task runs from one await *)
(* to the next without interruption: every action below is the code        *)
(* between two awaits of one task.                                         *)
(*                                                                         *)
(* Prices are integers (cents).  target is a Python float; it is modelled  *)
(* exactly, as base * (19/20)^lo * (101/100)^hi (0.95 = 19/20, 1.01 =      *)
(* 101/100), and compared with an ask by cross-multiplication on digit     *)
(* sequences, the products being too large for TLC's 32-bit integers.      *)
(*                                                                         *)
(* The clock counts whole seconds.  The code uses time.time() only in      *)
(* now - last, so the model keeps the clock relative to last: elapsed is   *)
(* time.time() - last, and it stops counting one second past the quiet     *)
(* interval, where "now - last > 30" no longer changes.                    *)
(***************************************************************************)
EXTENDS Integers, Sequences, FiniteSets, TLC

----------------------------------------------------------------------------
(* Bounds of the model *)

\* keep_buying's to_buy argument (100000 by default)
ToBuy == 2
\* largest askSize a quote message carries
MaxAskSize == 2
\* the model stops before one more raise of the target than this
MaxRaises == 2

\* asks carried by the quote messages
Asks == {18, 20}
AskSizes == 0 .. MaxAskSize
\* seconds the clock advances over "await asyncio.sleep(1.0)"
SleepTimes == {1, 2}
\* seconds the clock advances over "await asyncio.sleep(timeout)", timeout=0.5
GraceTimes == {0, 1}

----------------------------------------------------------------------------
(* Program constants *)

\* THRESHOLD = 0.95 = 19/20
ThresholdNum == 19
ThresholdDen == 20
\* target *= 1.01 = 101/100
RaiseNum == 101
RaiseDen == 100
\* if now - last > 30
QuietInterval == 30

----------------------------------------------------------------------------
(* Exact arithmetic on the float target *)

\* natural numbers as sequences of digits, least significant first
Digits == 1000 * 1000

RECURSIVE MulCarry(_, _, _)
MulCarry(x, k, c) ==
    IF x = <<>>
    THEN IF c = 0 THEN <<>> ELSE <<c>>
    ELSE LET v == Head(x) * k + c
         IN  <<v % Digits>> \o MulCarry(Tail(x), k, v \div Digits)

\* x * k^n, k > 0
RECURSIVE MulPow(_, _, _)
MulPow(x, k, n) == IF n = 0 THEN x ELSE MulPow(MulCarry(x, k, 0), k, n - 1)

RECURSIVE GreaterFrom(_, _, _)
GreaterFrom(x, y, i) ==
    IF i = 0 THEN FALSE
    ELSE IF x[i] # y[i] THEN x[i] > y[i]
    ELSE GreaterFrom(x, y, i - 1)

\* x > y, neither with a leading zero digit
Greater(x, y) ==
    IF Len(x) # Len(y) THEN Len(x) > Len(y) ELSE GreaterFrom(x, y, Len(x))

Nat1(n) == IF n = 0 THEN <<>> ELSE <<n>>

\* the float 0.0: target is unset
Unset == [base |-> 0, lo |-> 0, hi |-> 0]

\* a > base * (19/20)^lo * (101/100)^hi
Above(a, t) ==
    Greater(MulPow(MulPow(Nat1(a), ThresholdDen, t.lo), RaiseDen, t.hi),
            MulPow(MulPow(Nat1(t.base), ThresholdNum, t.lo), RaiseNum, t.hi))

Min(a, b) == IF a < b THEN a ELSE b

----------------------------------------------------------------------------
(* The quote dict and the messages of the ticker tape *)

\* quote = {}
EmptyDict == [k \in {} |-> 0]

\* message['quote'] of a ticker-tape message; the venue leaves out the
\* fields of an empty side of the book
Messages ==
    {[ask |-> a, askSize |-> s] : a \in Asks, s \in AskSizes}
        \cup {[askSize |-> s] : s \in AskSizes}
        \cup {[ask |-> a] : a \in Asks}

\* quote.update(message['quote'])
Update(q, m) == m @@ q

----------------------------------------------------------------------------
(* The decisions of the loop body *)

\* the clock, dt seconds later
Advance(e, dt) == Min(e + dt, QuietInterval + 1)

\* the seconds since the last raise, dt seconds later; 0 before the first
Since(n, e, dt) == IF n = 0 THEN 0 ELSE Advance(e, dt)

\* while shares_bought <= shares_to_buy
NeedMoreSharesOffByOne(bought, toBuy) == bought <= toBuy

\* while shares_bought < shares_to_buy
NeedMoreShares(bought, toBuy) == bought < toBuy

\* target = target or ask
InitializeTargetAtAsk(t, a) ==
    IF t.base = 0 THEN [base |-> a, lo |-> 0, hi |-> 0] ELSE t

\* target = ask * THRESHOLD, whatever target is
InitializeTargetAlways(t, a) ==
    [base |-> a, lo |-> IF a = 0 THEN 0 ELSE 1, hi |-> 0]

\* target = target or ask * THRESHOLD
InitializeTarget(t, a) ==
    IF t.base = 0 THEN [base |-> a, lo |-> IF a = 0 THEN 0 ELSE 1, hi |-> 0]
    ELSE t

\* last = time.time() on a pass that finds no usable quote
ElapsedAfterSkipReset(e) == 0

\* "except KeyError: continue" leaves last as it is
ElapsedAfterSkip(e) == e

\* the check of the ask against the target left out
AskNeverTooHigh(a, t) == FALSE

\* if ask > target
AskTooHigh(a, t) == Above(a, t)

\* the raise left out
RaiseDueNever(e) == FALSE

\* if now - last >= 30
RaiseDueAtInterval(e) == e >= QuietInterval

\* if now - last > 30
RaiseDue(e) == e > QuietInterval

\* target *= 1.01
RaiseTarget(t) == IF t.base = 0 THEN t ELSE [t EXCEPT !.hi = @ + 1]

\* last is not set after a raise
ElapsedAfterRaiseKept(e) == e

\* last = now, after a raise: now - last is 0 again
ElapsedAfterRaise(e) == 0

\* the check of ask_size left out
NoSizeUnchecked(s) == FALSE

\* if not ask_size > 0: continue
NoSize(s) == ~(s > 0)

\* a bid for all that is offered
BidSizeUncapped(toBuy, bought, s) == s

\* a bid for all that remains to buy
BidSizeAllRemaining(toBuy, bought, s) == toBuy - bought

\* bid_size = min(shares_to_buy - shares_bought, ask_size)
BidSize(toBuy, bought, s) == Min(toBuy - bought, s)

\* api.time_bounded_order(direction='buy', shares=bid_size,
\*                        order_type='limit', price=ask)
BuyOrder(size, price) ==
    [qty |-> size, price |-> price, direction |-> "buy", orderType |-> "limit"]

\* shares_bought += filled
AddFilled(bought, f) == bought + f

\* target *= THRESHOLD
LowerTarget(t) == IF t.base = 0 THEN t ELSE [t EXCEPT !.lo = @ + 1]

\* last = time.time(), at the end of the loop body, whatever filled is
ElapsedAfterDispatch(e, f) == 0

\* the loop condition, evaluated when the body has run to its end
AfterBody(bought, toBuy) ==
    IF NeedMoreShares(bought, toBuy) THEN "sleep" ELSE "stop"

\* ids the venue gives to orders
OrderIds == {1, 2}

\* order['id'], read from the response of API.order
OrderIdOther(response) == 3 - response[1]

OrderId(response) == response[1]

\* a response of web.instance that tells neither a ceiling nor an abort
NoNews == [ceiling |-> <<>>, abort |-> FALSE]

\* ceilings of the client a response of web.instance can tell
ClientCeilings == {17}

\* the responses of web.instance
Instances ==
    [ceiling : {<<>>} \cup {<<c>> : c \in ClientCeilings}, abort : BOOLEAN]

\* the target is higher than the price c
Exceeds(t, c) ==
    /\ t # Unset
    /\ Greater(MulPow(MulPow(Nat1(t.base), ThresholdNum, t.lo), RaiseNum, t.hi),
               MulPow(MulPow(Nat1(c), ThresholdDen, t.lo), RaiseDen, t.hi))

\* listener.cancel(): Task.cancel acts on the task the name is bound to, and
\* does nothing to a task that is done
CancelTask(state, bound) ==
    IF bound /\ state \in {"connecting", "open"} THEN "cancelled" ELSE state

\* websockets.connect raises (no except clause of quote_listener names what
\* it raises: the task ends with the exception)
AfterConnectError(state) == "dead"

----------------------------------------------------------------------------
VARIABLES
    pc,             \* where keep_buying is suspended
    quote,          \* the dict shared by quote_listener and keep_buying
    shares_to_buy,
    shares_bought,
    target,
    elapsed,        \* time.time() - last
    order,          \* the order of the dispatch in flight (the dict API.order posts)
    filled,
    branch,         \* history: the way the last pass of the loop body went
    initialized,    \* history: <<the value "target or ask * THRESHOLD" gave
                    \* the unset target>>
    raises,         \* history: the number of "target *= 1.01" so far
    waited,         \* history: <<now - last at the last raise>>
    sinceRaise,     \* history: the seconds since the last "target *= 1.01"
    gap,            \* history: <<the seconds between the last two raises>>
    open_orders,    \* the venue: the ids of the orders of the run that are open
    placed,         \* <<the id in the response of API.order>>, the "order"
                    \* of time_bounded_order
    cancelling,     \* <<the id cancel_order was called with>>
    instance,       \* what the last response of web.instance told: <<the
                    \* client's price ceiling>> if any, and whether the
                    \* instance was ended from outside
    listener,       \* the state of the running quote_listener task
    tracked,        \* keep_buying's name "listener" is bound to that task
    lost            \* history: <<what the venue had filled of the order whose
                    \* cancel call failed>>

vars == <<pc, quote, shares_to_buy, shares_bought, target, elapsed, order,
          filled, branch, initialized, raises, waited, sinceRaise, gap, open_orders,
          placed, cancelling, instance, listener, tracked, lost>>

history == <<branch, initialized, raises, waited, sinceRaise, gap>>

venue == <<open_orders, placed, cancelling, lost>>

stream == <<listener, tracked>>

NoOrder == [qty |-> 0, price |-> 0, direction |-> "none", orderType |-> "none"]

\* keep_buying(target=t), up to the first pass of the loop
Start(t) ==
    /\ pc = "sleep"
    /\ quote = EmptyDict
    /\ shares_to_buy = ToBuy
    /\ shares_bought = 0
    /\ target = t
    /\ elapsed = 0
    /\ order = NoOrder
    /\ filled = 0
    /\ branch = "start"
    /\ initialized = <<>>
    /\ raises = 0
    /\ waited = <<>>
    /\ sinceRaise = 0
    /\ gap = <<>>
    /\ lost = <<>>
    /\ open_orders = {}
    /\ placed = <<>>
    /\ cancelling = <<>>
    /\ instance = NoNews
    /\ listener = "connecting"
    /\ tracked = TRUE

\* keep_buying(), as main calls it
Init == Start(Unset)

----------------------------------------------------------------------------
(* quote_listener *)

\* message = json.loads(await socket.recv()); quote.update(message['quote'])
Recv(m) ==
    /\ UNCHANGED <<instance, venue, stream>>
    /\ pc \notin {"done", "failed"}
    /\ listener = "open"
    /\ quote' = Update(quote, m)
    /\ UNCHANGED <<pc, shares_to_buy, shares_bought, target, elapsed, order,
                   filled, history>>

\* "async with websockets.connect(url) as socket": the handshake is done
Connected ==
    /\ pc \notin {"done", "failed"}
    /\ listener = "connecting"
    /\ listener' = "open"
    /\ UNCHANGED <<pc, quote, shares_to_buy, shares_bought, target, elapsed,
                   order, filled, history, venue, tracked, instance>>

\* websockets.connect raises (the endpoint refuses or the handshake fails)
ConnectFailed ==
    /\ pc \notin {"done", "failed"}
    /\ listener = "connecting"
    /\ listener' = AfterConnectError(listener)
    /\ UNCHANGED <<pc, quote, shares_to_buy, shares_bought, target, elapsed,
                   order, filled, history, venue, tracked, instance>>

\* socket.recv() raises ConnectionClosed: the task creates a new
\* quote_listener task on the same dict and ends; keep_buying's name
\* "listener" stays bound to the task it created at line 227
Closed ==
    /\ pc \notin {"done", "failed"}
    /\ listener = "open"
    /\ listener' = "connecting"
    /\ tracked' = FALSE
    /\ UNCHANGED <<pc, quote, shares_to_buy, shares_bought, target, elapsed,
                   order, filled, history, venue, instance>>

----------------------------------------------------------------------------
(* keep_buying *)

\* One pass of the loop body, from the wake-up of "await asyncio.sleep(1.0)"
\* to a continue or to the post of the order.
Tick(dt) ==
    /\ UNCHANGED <<instance, stream, venue>>
    /\ pc = "sleep"
    /\ UNCHANGED <<quote, shares_to_buy, shares_bought, filled>>
    /\ IF "ask" \notin DOMAIN quote \/ "askSize" \notin DOMAIN quote
       THEN /\ branch' = "nokey"
            /\ initialized' = initialized
            /\ elapsed' = ElapsedAfterSkip(Advance(elapsed, dt))
            /\ sinceRaise' = Since(raises, sinceRaise, dt)
            /\ UNCHANGED <<pc, target, order, raises, waited, gap>>
       ELSE LET a == quote.ask
                s == quote.askSize
                t == InitializeTarget(target, a)
                e == Advance(elapsed, dt)
            IN  /\ initialized' = IF target = Unset THEN <<t>> ELSE initialized
                /\ IF AskTooHigh(a, t)
                   THEN IF RaiseDue(e)
                        THEN /\ raises < MaxRaises
                             /\ target' = RaiseTarget(t)
                             /\ elapsed' = ElapsedAfterRaise(e)
                             /\ branch' = "raised"
                             /\ raises' = raises + 1
                             /\ waited' = <<e>>
                             /\ sinceRaise' = 0
                             /\ gap' = IF raises = 0 THEN <<>>
                                       ELSE <<Advance(sinceRaise, dt)>>
                             /\ UNCHANGED <<pc, order>>
                        ELSE /\ target' = t
                             /\ elapsed' = e
                             /\ branch' = "high"
                             /\ sinceRaise' = Since(raises, sinceRaise, dt)
                             /\ UNCHANGED <<pc, order, raises, waited, gap>>
                   ELSE IF NoSize(s)
                   THEN /\ target' = t
                        /\ elapsed' = e
                        /\ branch' = "nosize"
                        /\ sinceRaise' = Since(raises, sinceRaise, dt)
                        /\ UNCHANGED <<pc, order, raises, waited, gap>>
                   ELSE /\ target' = t
                        /\ elapsed' = e
                        /\ order' = BuyOrder(BidSize(shares_to_buy, shares_bought, s), a)
                        /\ pc' = "order"
                        /\ branch' = "dispatch"
                        /\ sinceRaise' = Since(raises, sinceRaise, dt)
                        /\ UNCHANGED <<raises, waited, gap>>

\* API.order: the response to the post of the order; the venue has opened
\* the order under an id that no open order has
OrderPlaced(id) ==
    /\ UNCHANGED <<instance, stream>>
    /\ id \notin open_orders
    /\ open_orders' = open_orders \cup {id}
    /\ placed' = <<id>>
    /\ UNCHANGED <<cancelling, lost>>
    /\ pc = "order"
    /\ pc' = "grace"
    /\ UNCHANGED <<quote, shares_to_buy, shares_bought, target, elapsed, order,
                   filled, history>>

\* unwrap_response raises on the response to the post (status >= 400, a body
\* that is not json, ok = false); nothing up to main catches it
OrderFailed ==
    /\ UNCHANGED <<instance, stream, venue>>
    /\ pc = "order"
    /\ pc' = "failed"
    /\ UNCHANGED <<quote, shares_to_buy, shares_bought, target, elapsed, order,
                   filled, history>>

\* await asyncio.sleep(timeout) of time_bounded_order; the delete is sent
GraceOver(dt) ==
    /\ UNCHANGED <<instance, stream>>
    /\ pc = "grace"
    /\ cancelling' = <<OrderId(placed)>>
    /\ UNCHANGED <<open_orders, placed, lost>>
    /\ elapsed' = Advance(elapsed, dt)
    /\ sinceRaise' = Since(raises, sinceRaise, dt)
    /\ pc' = "cancel"
    /\ UNCHANGED <<quote, shares_to_buy, shares_bought, target, order, filled,
                   branch, initialized, raises, waited, gap>>

\* the response to the cancel carries totalFilled = f; the order is closed
Cancelled(f) ==
    /\ UNCHANGED <<instance, stream>>
    /\ pc = "cancel"
    /\ open_orders' = open_orders \ {cancelling[1]}
    /\ placed' = <<>>
    /\ cancelling' = <<>>
    /\ UNCHANGED lost
    /\ filled' = f
    /\ shares_bought' = AddFilled(shares_bought, f)
    /\ IF f # 0
       THEN /\ pc' = "poll"
            /\ UNCHANGED elapsed
       ELSE /\ elapsed' = ElapsedAfterDispatch(elapsed, f)
            /\ pc' = AfterBody(shares_bought', shares_to_buy)
    /\ order' = NoOrder
    /\ UNCHANGED <<quote, shares_to_buy, target, history>>

\* unwrap_response raises on the response to the cancel, the venue having
\* filled f shares of the order; order['totalFilled'] is never read
CancelFailed(f) ==
    /\ UNCHANGED <<instance, stream>>
    /\ pc = "cancel"
    /\ pc' = "failed"
    /\ lost' = <<f>>
    /\ UNCHANGED <<open_orders, placed, cancelling>>
    /\ UNCHANGED <<quote, shares_to_buy, shares_bought, target, elapsed, order,
                   filled, history>>

\* web.instance(instance_id) after a fill answers i: the flash info is
\* logged, or the KeyError is caught, and nothing else of i is read; then the
\* target is lowered
Polled(i) ==
    /\ pc = "poll"
    /\ instance' = i
    /\ UNCHANGED <<stream, venue>>
    /\ target' = LowerTarget(target)
    /\ elapsed' = ElapsedAfterDispatch(elapsed, filled)
    /\ pc' = AfterBody(shares_bought, shares_to_buy)
    /\ UNCHANGED <<quote, shares_to_buy, shares_bought, order, filled, history>>

\* unwrap_response raises on the response of web.instance
PollFailed ==
    /\ UNCHANGED <<instance, stream, venue>>
    /\ pc = "poll"
    /\ pc' = "failed"
    /\ UNCHANGED <<quote, shares_to_buy, shares_bought, target, elapsed, order,
                   filled, history>>

\* web.stop(instance_id); listener.cancel(); loop.stop()
Stopped ==
    /\ UNCHANGED <<instance, venue, tracked>>
    /\ pc = "stop"
    /\ pc' = "done"
    /\ listener' = CancelTask(listener, tracked)
    /\ UNCHANGED <<quote, shares_to_buy, shares_bought, target, elapsed, order,
                   filled, history>>

\* unwrap_response raises on the response of web.stop
StopFailed ==
    /\ UNCHANGED <<instance, stream, venue>>
    /\ pc = "stop"
    /\ pc' = "failed"
    /\ UNCHANGED <<quote, shares_to_buy, shares_bought, target, elapsed, order,
                   filled, history>>

\* the passes of keep_buying and the responses to its requests
Buying ==
    \/ \E dt \in SleepTimes : Tick(dt)
    \/ \E id \in OrderIds : OrderPlaced(id)
    \/ OrderFailed
    \/ \E dt \in GraceTimes : GraceOver(dt)
    \/ \E f \in 0 .. order.qty : Cancelled(f)
    \/ \E f \in 0 .. order.qty : CancelFailed(f)
    \/ Polled(NoNews)
    \/ PollFailed
    \/ Stopped
    \/ StopFailed

\* the stream stays up for the whole run
Next ==
    \/ Connected
    \/ \E m \in Messages : Recv(m)
    \/ Buying

Spec == Init /\ [][Next]_vars

\* quote messages with both fields
FullQuotes == {m \in Messages : DOMAIN m = {"ask", "askSize"}}

\* the stream can close and the endpoint can refuse a connection
NextStream ==
    \/ Connected
    \/ ConnectFailed
    \/ Closed
    \/ \E m \in FullQuotes : Recv(m)
    \/ Buying

SpecStream == Init /\ [][NextStream]_vars

\* the responses of web.instance tell a ceiling of the client, or that the
\* instance was ended from outside
NextSession ==
    \/ Connected
    \/ \E m \in FullQuotes : Recv(m)
    \/ Buying
    \/ \E i \in Instances : Polled(i)

SpecSession == Init /\ [][NextSession]_vars

\* a stream whose messages can be told apart by the quote they leave: two
\* full quotes, and the message of a book without asks (askSize alone)
PartialStream ==
    {[ask |-> 20, askSize |-> 1], [ask |-> 18, askSize |-> 2], [askSize |-> 0]}

NextPartial ==
    \/ Connected
    \/ \E m \in PartialStream : Recv(m)
    \/ Buying

SpecPartial == Init /\ [][NextPartial]_vars

\* the one quote the stream repeats
RepeatedQuote == [ask |-> 18, askSize |-> 1]

\* keep_buying(target=19)
GivenTarget == [base |-> 19, lo |-> 0, hi |-> 0]

\* every message of the stream carries the same quote
NextRepeat ==
    \/ Connected
    \/ Recv(RepeatedQuote)
    \/ Buying

SpecRepeat == Start(GivenTarget) /\ [][NextRepeat]_vars

\* the one quote of a market that stays above the target (it offers all
\* the shares the run is to buy)
StallQuote == [ask |-> 100, askSize |-> ToBuy]

\* keep_buying(target=99)
StallTarget == [base |-> 99, lo |-> 0, hi |-> 0]

\* every message of the stream carries the ask 100
NextStall ==
    \/ Connected
    \/ Recv(StallQuote)
    \/ Buying

\* The loop keeps ticking: the event loop wakes keep_buying from every
\* "await asyncio.sleep(1.0)", and the pass runs to its next await.
SpecStall ==
    /\ Start(StallTarget)
    /\ [][NextStall]_vars
    /\ WF_vars(\E dt \in SleepTimes : Tick(dt))

----------------------------------------------------------------------------
(* Steps and states the properties speak of *)

\* keep_buying holds a quote with both fields
Usable == "ask" \in DOMAIN quote /\ "askSize" \in DOMAIN quote

\* a step that is one pass of the loop body (the listener's steps change
\* quote or the listener)
TickStep == pc = "sleep" /\ quote' = quote /\ listener' = listener

\* a pass of the loop body that posts an order
Dispatches == TickStep /\ pc' = "order"

\* a dispatch is in flight
InFlight == pc \in {"order", "grace", "cancel"}

----------------------------------------------------------------------------
(* C1: in every reachable state 0 <= shares_bought <= shares_to_buy, and   *)
(* no step decreases shares_bought (each dispatch reports a fill between 0 *)
(* and the quantity ordered).                                              *)
C1_BoughtWithinTarget ==
    /\ [](0 <= shares_bought /\ shares_bought <= shares_to_buy)
    /\ [][shares_bought' >= shares_bought]_vars

\* the target quantity is reached, the last order filling the last share
C1_Witness ==
    pc = "stop" /\ shares_bought = shares_to_buy /\ filled = 1

(* C2: every order posted has quantity min(shares_to_buy - shares_bought,  *)
(* askSize) of the quote read on that pass, so it exceeds neither what     *)
(* remains to buy nor what is offered.                                     *)
C2_BidSizeIsMin ==
    [][Dispatches =>
        /\ order'.qty = Min(shares_to_buy - shares_bought, quote.askSize)
        /\ order'.qty <= shares_to_buy - shares_bought
        /\ order'.qty <= quote.askSize]_vars

\* an order for the one share that remains, two being offered
C2_Witness ==
    /\ pc = "order" /\ Usable
    /\ order.qty = shares_to_buy - shares_bought
    /\ order.qty < quote.askSize

(* C3: a pass that reads askSize = 0 posts no order, also when the ask is  *)
(* at or below the target; no order of quantity 0 is ever posted.          *)
C3_NoOrderWithoutSize ==
    /\ [][(TickStep /\ Usable /\ quote.askSize = 0) =>
            (pc' = "sleep" /\ order' = order)]_vars
    /\ [](InFlight => order.qty > 0)

\* a pass skipped for askSize = 0 with the ask at or below the target
C3_Witness ==
    /\ pc = "sleep" /\ branch = "nosize" /\ Usable
    /\ quote.askSize = 0 /\ ~Above(quote.ask, target)

(* C4: with the target unset, a pass that reads a usable quote with        *)
(* ask > 0 sets the target to ask * THRESHOLD, which is below that ask, so *)
(* the pass posts no order; a later pass that reads the same ask, the      *)
(* target still ask * THRESHOLD, posts none either.  (The pass that sets   *)
(* the target goes on to raise it by 1.01 when more than the quiet         *)
(* interval has passed since the start of the run; the target is below     *)
(* the ask then, too.)                                                     *)
FirstQuote == TickStep /\ Usable /\ target = Unset /\ quote.ask > 0

AtThreshold(a) == [base |-> a, lo |-> 1, hi |-> 0]

C5_FillEffects ==
    [][/\ (pc = "cancel" /\ pc' = "poll") =>
            (filled' > 0 /\ shares_bought' = shares_bought + filled')
       /\ (pc = "poll" /\ pc' \in {"sleep", "stop"}) =>
            /\ target' = [target EXCEPT !.lo = @ + 1]
            /\ elapsed' = 0
            /\ shares_bought' = shares_bought
       /\ (pc = "cancel" /\ pc' \in {"sleep", "stop"}) =>
            /\ filled' = 0
            /\ shares_bought' = shares_bought
            /\ target' = target
            /\ elapsed' = elapsed]_vars

(* C6: between two raises of the target at least the quiet interval        *)
(* passes, so a window shorter than the quiet interval holds at most one   *)
(* raise.                                                                  *)
C6_RaisesApart == gap # <<>> => gap[1] >= QuietInterval

\* the target has been raised twice
C6_Witness == raises = 2 /\ gap # <<>>

(* C7: a pass that finds the ask above the (set) target raises the target  *)
(* once by 1.01 when 10 seconds have passed since the timer was set, and   *)
(* leaves it alone before.  This is the claim as stated.                   *)
Stalled == TickStep /\ Usable /\ target # Unset /\ Above(quote.ask, target)

C7_AsClaimed ==
    [][Stalled =>
        \/ /\ raises' = raises + 1
           /\ target' = [target EXCEPT !.hi = @ + 1]
           /\ waited'[1] >= 10
        \/ /\ raises' = raises
           /\ target' = target
           /\ elapsed' < 10]_vars

(* C7, amended: such a pass raises the target once by 1.01 when more than  *)
(* 30 seconds have passed since last was set (at the start of the run, at  *)
(* the last raise or at the end of the last dispatch), and leaves it alone *)
(* before.                                                                 *)
C7_RaiseAfterQuietInterval ==
    [][Stalled =>
        \/ /\ raises' = raises + 1
           /\ target' = [target EXCEPT !.hi = @ + 1]
           /\ waited'[1] > QuietInterval
           /\ elapsed' = 0
           /\ pc' = "sleep"
        \/ /\ raises' = raises
           /\ target' = target
           /\ elapsed' > elapsed
           /\ elapsed' <= QuietInterval
           /\ pc' = "sleep"]_vars

\* a share was bought and the target lowered; then the ask stayed above the
\* target and a pass raised it, more than 30 seconds after last was set
C7_Witness ==
    /\ pc = "sleep" /\ branch = "raised" /\ raises = 1 /\ shares_bought = 1
    /\ waited = <<QuietInterval + 1>>
    /\ target = [base |-> 20, lo |-> 2, hi |-> 1]

(* C8: a pass that reads an ask above the target posts no order; an order  *)
(* that is posted is a limit buy at the ask read on that pass, which is at *)
(* or below the target, and stays so while the dispatch is in flight.      *)
C8_NeverBidsAboveTarget ==
    /\ [][(TickStep /\ Usable) =>
            /\ (target # Unset /\ Above(quote.ask, target)) => pc' = "sleep"
            /\ pc' = "order" =>
                /\ order'.price = quote.ask
                /\ order'.direction = "buy" /\ order'.orderType = "limit"
                /\ ~Above(order'.price, target')]_vars
    /\ [](InFlight => ~Above(order.price, target))

\* an order at 18 is in flight under a target of 19
C8_Witness ==
    /\ pc = "order" /\ order.price = 18
    /\ target = AtThreshold(20)

(* C9: once shares_bought has reached shares_to_buy the loop is left in    *)
(* the pass that saw the fill (after its poll of the instance), and no     *)
(* order is posted from then on.                                           *)
C9_StopsAtTarget ==
    /\ [](shares_bought = shares_to_buy =>
            pc \in {"poll", "stop", "done", "failed"})
    /\ [][shares_bought = shares_to_buy =>
            (pc' \in {"poll", "stop", "done", "failed"} /\ order' = order)]_vars
    /\ [][(pc = "poll" /\ shares_bought = shares_to_buy) =>
            pc' \in {"poll", "stop", "failed"}]_vars

\* the last share was bought by an order of its own and the loop is left
C9_Witness ==
    /\ pc = "done" /\ shares_bought = shares_to_buy /\ filled = 1
    /\ order = NoOrder

(* C10: when the post of an order fails, the dispatch counts as filled 0:  *)
(* shares_bought and the target stay as they are, the run goes on and the  *)
(* loop sleeps until its next pass.                                        *)
C10_FailedPostIsZeroFill ==
    [][(pc = "order" /\ pc' \notin {"order", "grace"}) =>
        /\ pc' = "sleep"
        /\ shares_bought' = shares_bought
        /\ target' = target]_vars

(* C11: when the cancel call fails for an order the venue has filled      *)
(* whole, the run goes on (keep_buying is not left by the exception) and   *)
(* the filled quantity of the order is added to shares_bought.             *)
C11_FailedCancelOfFilledOrder ==
    [][(pc = "cancel" /\ lost' # lost /\ lost' = <<order.qty>>) =>
        /\ pc' # "failed"
        /\ shares_bought' = shares_bought + order.qty]_vars

(* C12: after the stream has closed, the listener subscribes again and     *)
(* goes on publishing to the same quote dict, whatever the number of       *)
(* closes and also when the new connection attempt itself fails: no step   *)
(* of a replacement listener ends the listening (a listener that is dead   *)
(* never publishes again, no step leaves that state), and no such step     *)
(* changes shares_bought, the target or the quiet-interval timer.          *)
C12_ListenerResubscribes ==
    [][(~tracked /\ listener' # listener) =>
        /\ listener' \in {"connecting", "open"}
        /\ shares_bought' = shares_bought
        /\ target' = target
        /\ elapsed' = elapsed]_vars

(* C13: once keep_buying has stopped the instance, cancelled its listener  *)
(* and stopped the loop, no quote_listener task is left connected or       *)
(* connecting, also when the listener has reconnected during the run.      *)
C13_NoListenerAfterRun ==
    pc = "done" => listener \in {"cancelled", "dead"}

(* C14: a quote that has not changed since the loop last evaluated it is  *)
(* not evaluated again: it causes no further raise of the target and no    *)
(* further order.  (In SpecRepeat every message carries the same quote, so *)
(* the quote a pass reads is unchanged since the last evaluation exactly   *)
(* when the pass before it read a quote with both fields.)                 *)
C14_UnchangedQuoteNotReevaluated ==
    [][(TickStep /\ Usable /\ branch \in {"high", "raised", "nosize", "dispatch"}) =>
        /\ pc' # "order"
        /\ target' = target]_vars

(* C15: once a response of web.instance has told the client's ceiling,     *)
(* the target is never above it: the target is clamped to the ceiling when *)
(* the ceiling is learned and when the target is raised.                   *)
C15_TargetWithinClientsCeiling ==
    instance.ceiling # <<>> => ~Exceeds(target, instance.ceiling[1])

(* C16: when a response of web.instance tells that the instance was ended  *)
(* from outside, the loop is left whatever shares_bought is: the run goes  *)
(* on to stop the instance and no further order is posted.                 *)
C16_AbortEndsTheLoop ==
    [][instance'.abort => pc' \in {"stop", "done", "failed"}]_vars

(* C17: a dispatch is the post of an order, the grace period and the      *)
(* cancel of that order: the cancel request carries the id the post gave,  *)
(* the order is closed before a pass of the loop posts the next one, at    *)
(* most one order of the run is open at any time and the loop is between   *)
(* dispatches only when no order of its own is in flight.                  *)
C17_OneOrderAtATime ==
    /\ [](Cardinality(open_orders) <= 1)
    /\ [](pc = "cancel" => cancelling = placed /\ placed[1] \in open_orders)
    /\ [](pc \in {"sleep", "poll", "stop", "done"} =>
            open_orders = {} /\ order = NoOrder)
    /\ [][Dispatches => open_orders = {} /\ placed = <<>>]_vars

\* the second order of the run is being cancelled under its own id
C17_Witness ==
    /\ pc = "cancel" /\ shares_bought = 1
    /\ placed = <<2>> /\ cancelling = <<2>> /\ open_orders = {2}

(* C18: the pair (ask, askSize) a pass of the loop reads is the pair one   *)
(* message carried, the last one received: never the ask of one message    *)
(* with the askSize of another, also when a message carries one field      *)
(* only.  (In SpecPartial no two messages agree on a field, so a pair that *)
(* no message carries is a mix of two messages.)                           *)
C18_ReadsOneMessage ==
    [][(TickStep /\ Usable) => quote \in PartialStream]_vars

(* C19: once the target is set, a step changes it only by the raise       *)
(* (target *= 1.01, on a pass that finds the ask above the target) or by   *)
(* the lowering after a fill (target *= THRESHOLD): no later ask sets it   *)
(* anew, and a pass that is skipped (no usable quote, askSize 0) and a     *)
(* dispatch that fills nothing leave it as it is.                          *)
C19_TargetChangesByRaiseOrFill ==
    /\ [][target # Unset =>
            \/ target' = target
            \/ /\ TickStep /\ Usable /\ Above(quote.ask, target)
               /\ target' = [base |-> target.base, lo |-> target.lo,
                              hi |-> target.hi + 1]
            \/ /\ pc = "poll" /\ filled > 0
               /\ target' = [base |-> target.base, lo |-> target.lo + 1,
                              hi |-> target.hi]]_vars
    /\ [][(target # Unset /\ TickStep /\ branch' \in {"nokey", "nosize"}) =>
            target' = target]_vars
    /\ [][(pc = "cancel" /\ filled' = 0) => target' = target]_vars

\* the target set from the ask 20 and lowered by a fill is kept by a pass
\* that reads the later ask 18 and skips it for its askSize 0
C19_Witness ==
    /\ branch = "nosize" /\ pc = "sleep" /\ shares_bought = 1
    /\ Usable /\ quote.ask = 18 /\ quote.askSize = 0
    /\ target = [base |-> 20, lo |-> 2, hi |-> 0]

(* C20: while the quote dict lacks ask or askSize, a pass of the loop is   *)
(* skipped: it posts no order, leaves the target, shares_bought and last   *)
(* (the start of the quiet interval, so that now - last grows by the sleep)*)
(* as they are, and the loop goes on to its next sleep.                    *)
C20_NoQuoteSkipsThePass ==
    [][(TickStep /\ ~Usable) =>
        /\ pc' = "sleep"
        /\ order' = NoOrder
        /\ target' = target
        /\ shares_bought' = shares_bought
        /\ \E dt \in SleepTimes : elapsed' = Advance(elapsed, dt)]_vars

\* a pass has found a dict with an ask and no askSize and was skipped
C20_Witness ==
    /\ branch = "nokey" /\ pc = "sleep" /\ DOMAIN quote = {"ask"}
    /\ target = Unset /\ shares_bought = 0 /\ elapsed = 2

(* C21: the raise keeps the loop from stalling for ever.  When the ask     *)
(* stays at one positive value above the target, with a positive askSize,  *)
(* and the loop keeps ticking, the target is raised again and again until  *)
(* a pass finds ask <= target and posts an order.  (In SpecStall the ask   *)
(* is 100 for the whole run.  The model stops raising after MaxRaises      *)
(* raises, so the stalls looked at are those the target leaves within that *)
(* many raises.)                                                           *)
RECURSIVE RaisesNeededFrom(_, _, _)
RaisesNeededFrom(a, t, n) ==
    IF n > MaxRaises \/ ~Above(a, [base |-> t.base, lo |-> t.lo, hi |-> t.hi + n])
    THEN n
    ELSE RaisesNeededFrom(a, t, n + 1)

\* the least number of raises after which the ask a is not above the target
RaisesNeeded(a, t) == RaisesNeededFrom(a, t, 0)

\* the loop sleeps with an ask it will not bid for
Stalling ==
    /\ pc = "sleep" /\ Usable /\ target # Unset
    /\ quote.ask > 0 /\ quote.askSize > 0
    /\ Above(quote.ask, target)
    /\ raises + RaisesNeeded(quote.ask, target) <= MaxRaises

C21_RaiseEndsTheStall ==
    Stalling ~> (pc = "order" /\ order.price = quote.ask
                              /\ ~Above(quote.ask, target))

\* the order for the ask 100 is posted after two raises of the target 99
C21_Witness ==
    /\ pc = "order" /\ branch = "dispatch" /\ raises = 2 /\ shares_bought = 0
    /\ quote = StallQuote /\ order.price = 100
    /\ target = [base |-> 99, lo |-> 0, hi |-> 2]

====
